---- MODULE Spec2Model ----
(***************************************************************************)
(* WXML tag-pair highlighting (WxmlDocumentHighlight), and the formatter,  *)
(* the activation and the WXML completion of the same extension.           *)
(*                                                                         *)
(* A document is a sequence of one-character strings.  Offsets are the     *)
(* 0-based string offsets of the TypeScript code; a range is the pair      *)
(* <<start, end>> of offsets (end exclusive) that doc.offsetAt gives for   *)
(* the Range's two positions.  A value that is `number | undefined` in     *)
(* the code is a sequence here: <<>> for undefined, <<n>> for the number.  *)
(***************************************************************************)
EXTENDS Integers, Sequences, FiniteSets, TLC

VARIABLES
    doc,        \* doc.getText(): the text of the document the editor shows
    pos,        \* the cursor offset of the request (doc.offsetAt(pos))
    phase,      \* "idle" before the request; then "returned" or "threw";
                \* "scanning" while a matcher loop is stepped through
    res,        \* the ranges the request returned, res of the code, in order
    matcher,    \* the matcher the request ran: "end" for findMatchedEndTag,
                \* "start" for findMatchedStartTag, "none" for neither
    lastIndex,  \* TagRegexp.lastIndex, the scan cursor the two matchers share
    found,      \* TagRegexp.lastIndex as the latest request found it
    scanName,   \* the name parameter of the matcher whose loop is running
    scanStack,  \* the local variable stack of that matcher
    iterations, \* the number of times the body of its while loop was entered
    config,     \* the extension's config object (lib/config), the fields read here
    settings,   \* the editor's settings, as workspace.getConfiguration() gives them
    written,    \* the c.update(key, value, true) calls of the latest activation
    formatRange, \* the range of the latest format call, a pair of offsets
    failure,    \* <<>>, or <<s>> when step s of the formatting engine threw
    messages,   \* the messages window.showErrorMessage was called with
    edits,      \* the TextEdit[] the latest format call resolved to
    context,    \* token and context of the latest completion request
    items       \* what the latest completion request returned

vars ==
    <<doc, pos, phase, res, matcher, lastIndex, found, scanName, scanStack,
      iterations, config, settings, written, formatRange, failure, messages,
      edits, context, items>>

\* the variables of the formatter, of the activation and of the completion
extVars ==
    <<config, settings, written, formatRange, failure, messages, edits, context,
      items>>

\* the variables of a matcher's loop, which a whole request runs through at once
scanVars == <<scanName, scanStack, iterations>>

(***************************************************************************)
(* Character classes of the regular expressions.                           *)
(***************************************************************************)
\* [\w:-] restricted to the characters the documents are drawn from
WordChar(c) == c \in {"a", "b", "x", "-"}

\* \s restricted likewise
SpaceChar(c) == c \in {" ", "\n"}

\* the line terminators that '.' does not match
LineTerminator(c) == c = "\n"

\* [<>]
AngleChar(c) == c \in {"<", ">"}

\* the character at 0-based offset i, "" outside the text
At(t, i) == IF i >= 0 /\ i < Len(t) THEN t[i + 1] ELSE ""

\* String.prototype.slice(a, b)
Slice(t, a, b) == SubSeq(t, a + 1, b)

\* TRUE iff the text s stands in t at offset i
StartsAt(t, i, s) == \A k \in 1..Len(s) : At(t, i + k - 1) = s[k]

\* end (exclusive) of the greedy run [\w:-]* starting at offset i
RECURSIVE WordEnd(_, _)
WordEnd(t, i) == IF WordChar(At(t, i)) THEN WordEnd(t, i + 1) ELSE i

\* start of the run of [\w:-] characters that ends at offset i (exclusive)
RECURSIVE WordStart(_, _)
WordStart(t, i) == IF WordChar(At(t, i - 1)) THEN WordStart(t, i - 1) ELSE i

\* offset of the first '<' or '>' at or after offset i, Len(t) when there is none
RECURSIVE FirstAngle(_, _)
FirstAngle(t, i) ==
    IF i >= Len(t) \/ AngleChar(At(t, i)) THEN i ELSE FirstAngle(t, i + 1)

\* offset of the first character c at or after offset i, Len(t) when there is none
RECURSIVE IndexOf(_, _, _)
IndexOf(t, c, i) ==
    IF i >= Len(t) \/ At(t, i) = c THEN i ELSE IndexOf(t, c, i + 1)

(***************************************************************************)
(* The host document: lines, words, look-behind and look-ahead.            *)
(***************************************************************************)
\* offset of the first character of the line that holds offset i
RECURSIVE LineStart(_, _)
LineStart(t, i) ==
    IF i <= 0 THEN 0
    ELSE IF LineTerminator(At(t, i - 1)) THEN i ELSE LineStart(t, i - 1)

\* offset of the end of the line that holds offset i (its terminator, or Len(t))
RECURSIVE LineEnd(_, _)
LineEnd(t, i) ==
    IF i >= Len(t) \/ LineTerminator(At(t, i)) THEN i ELSE LineEnd(t, i + 1)

\* Position.character of offset i
Column(t, i) == i - LineStart(t, i)

\* doc.getWordRangeAtPosition(pos, /[\w:-]+/): <<>> or <<range>>
getWordRangeAtPosition(t, p) ==
    IF WordChar(At(t, p)) \/ WordChar(At(t, p - 1))
    THEN << <<WordStart(t, p), WordEnd(t, p)>> >>
    ELSE <<>>

\* new Position(pos.line, pos.character - length) throws on a negative character
prevThrows(t, p, length) == Column(t, p) - length < 0

\* prev(doc, pos, length): the text of the line before the position
prev(t, p, length) == Slice(t, p - length, p)

\* next(doc, pos, length): the end position is clamped to the end of the line
next(t, p, length) ==
    LET e == IF p + length > LineEnd(t, p) THEN LineEnd(t, p) ELSE p + length
    IN  Slice(t, p, e)

(***************************************************************************)
(* normalize                                                               *)
(***************************************************************************)
\* a replacer that forgets the length of the match
replacerOneBlank(raw) == <<" ">>

\* a replacer that fills the match with a character other than the blank
replacerUnderscore(raw) == [k \in 1..Len(raw) |-> "_"]

\* the replacer: as many blanks as the match has characters
replacer(raw) == [k \in 1..Len(raw) |-> " "]

\* end of the shortest '.*?-->' from offset j, <<>> when there is none
RECURSIVE CommentClose(_, _)
CommentClose(t, j) ==
    IF j + 3 > Len(t) THEN <<>>
    ELSE IF StartsAt(t, j, <<"-", "-", ">">>) THEN <<j + 3>>
    ELSE IF LineTerminator(At(t, j)) THEN <<>>
    ELSE CommentClose(t, j + 1)

\* /<!--.*?-->/ matched at offset i: <<end>> or <<>>
MatchComment(t, i) ==
    IF StartsAt(t, i, <<"<", "!", "-", "-">>) THEN CommentClose(t, i + 4) ELSE <<>>

\* a pattern that knows double quotes only: /"[^"]*"/
MatchDoubleQuoted(t, i) ==
    IF At(t, i) = "\""
    THEN LET j == IndexOf(t, At(t, i), i + 1)
         IN  IF j < Len(t) THEN <<j + 1>> ELSE <<>>
    ELSE <<>>

\* /("[^"]*"|'[^']*')/ matched at offset i: <<end>> or <<>>
MatchQuoted(t, i) ==
    IF At(t, i) \in {"\"", "'"}
    THEN LET j == IndexOf(t, At(t, i), i + 1)
         IN  IF j < Len(t) THEN <<j + 1>> ELSE <<>>
    ELSE <<>>

\* a pattern without the attribute text: /<[\w:-]+\s+\/>/
RECURSIVE SpaceEnd(_, _)
SpaceEnd(t, i) == IF SpaceChar(At(t, i)) THEN SpaceEnd(t, i + 1) ELSE i

MatchSelfClosingNoAttr(t, i) ==
    IF At(t, i) = "<" /\ WordChar(At(t, i + 1))
    THEN LET ne == WordEnd(t, i + 1)
             k  == SpaceEnd(t, ne)
         IN  IF SpaceChar(At(t, ne)) /\ At(t, k) = "/" /\ At(t, k + 1) = ">"
             THEN <<k + 2>> ELSE <<>>
    ELSE <<>>

\* a pattern with optional whitespace: /<[\w:-]+\s*[^<>]*\/>/
MatchSelfClosingBare(t, i) ==
    IF At(t, i) = "<" /\ WordChar(At(t, i + 1))
    THEN LET ne == WordEnd(t, i + 1)
             k  == FirstAngle(t, ne)
         IN  IF At(t, k) = ">" /\ At(t, k - 1) = "/"
             THEN <<k + 1>> ELSE <<>>
    ELSE <<>>

\* /<[\w:-]+\s+[^<>]*\/>/ matched at offset i: <<end>> or <<>>
MatchSelfClosing(t, i) ==
    IF At(t, i) = "<" /\ WordChar(At(t, i + 1))
    THEN LET ne == WordEnd(t, i + 1)
             k  == FirstAngle(t, ne)
         IN  IF SpaceChar(At(t, ne)) /\ At(t, k) = ">" /\ At(t, k - 1) = "/"
             THEN <<k + 1>> ELSE <<>>
    ELSE <<>>

MatchPass(pass, t, i) ==
    CASE pass = "comment" -> MatchComment(t, i)
      [] pass = "quoted" -> MatchQuoted(t, i)
      [] pass = "selfClosing" -> MatchSelfClosing(t, i)

\* content.replace(/.../g, replacer) from offset i on
RECURSIVE replaceFrom(_, _, _)
replaceFrom(pass, t, i) ==
    IF i >= Len(t) THEN <<>>
    ELSE LET m == MatchPass(pass, t, i)
         IN  IF m # <<>>
             THEN replacer(Slice(t, i, m[1])) \o replaceFrom(pass, t, m[1])
             ELSE <<At(t, i)>> \o replaceFrom(pass, t, i + 1)

replace(pass, t) == replaceFrom(pass, t, 0)

normalize(content) ==
    replace("selfClosing", replace("quoted", replace("comment", content)))

(***************************************************************************)
(* TagRegexp and the two matchers                                          *)
(***************************************************************************)
\* a pattern whose first alternative takes any "<", with or without a name after it
MatchTagAnyOpen(t, i) ==
    IF At(t, i) # "<" THEN <<>>
    ELSE LET e == WordEnd(t, i + 1)
         IN  << [kind |-> "start", name |-> Slice(t, i + 1, e), index |-> i,
                 last |-> IF e > i + 1 THEN e ELSE i + 1] >>

\* TagRegexp matched at offset i: <<>> or <<[kind, name, index, last]>>
MatchTag(t, i) ==
    IF At(t, i) # "<" THEN <<>>
    ELSE IF WordChar(At(t, i + 1))
    THEN LET e == WordEnd(t, i + 1)
         IN  << [kind |-> "start", name |-> Slice(t, i + 1, e), index |-> i, last |-> e] >>
    ELSE IF At(t, i + 1) = "/" /\ WordChar(At(t, i + 2))
    THEN LET e == WordEnd(t, i + 2)
         IN  IF At(t, e) = ">"
             THEN << [kind |-> "end", name |-> Slice(t, i + 2, e), index |-> i,
                      last |-> e + 1] >>
             ELSE <<>>
    ELSE <<>>

\* TagRegexp.exec(t) with TagRegexp.lastIndex = from: the first match at or after from
RECURSIVE exec(_, _)
exec(t, from) ==
    IF from >= Len(t) THEN <<>>
    ELSE IF MatchTag(t, from) # <<>> THEN MatchTag(t, from)
    ELSE exec(t, from + 1)

\* the while loop of findMatchedEndTag; the result is [index, lastIndex]
RECURSIVE endTagLoop(_, _, _, _)
endTagLoop(name, nextContent, from, stack) ==
    LET mat == exec(nextContent, from)
    IN  IF mat = <<>> THEN [index |-> <<>>, lastIndex |-> 0]
        ELSE IF mat[1].kind = "start"
        THEN endTagLoop(name, nextContent, mat[1].last, stack \o <<mat[1].name>>)
        ELSE IF stack = <<>>
        THEN IF mat[1].name = name
             THEN [index |-> <<mat[1].index>>, lastIndex |-> mat[1].last]
             ELSE endTagLoop(name, nextContent, mat[1].last, stack)
        ELSE IF stack[Len(stack)] # mat[1].name
        THEN [index |-> <<>>, lastIndex |-> mat[1].last]
        ELSE endTagLoop(name, nextContent, mat[1].last, SubSeq(stack, 1, Len(stack) - 1))

\* a matcher without a stack: the first end tag of that name
RECURSIVE firstEndTagLoop(_, _, _)
firstEndTagLoop(name, nextContent, from) ==
    LET mat == exec(nextContent, from)
    IN  IF mat = <<>> THEN [index |-> <<>>, lastIndex |-> 0]
        ELSE IF mat[1].kind = "end" /\ mat[1].name = name
        THEN [index |-> <<mat[1].index>>, lastIndex |-> mat[1].last]
        ELSE firstEndTagLoop(name, nextContent, mat[1].last)

findMatchedEndTagNoStack(name, nextContent) == firstEndTagLoop(name, nextContent, 0)

\* a matcher that goes on after a popped name that differs from the end tag's
RECURSIVE noAbortLoop(_, _, _, _)
noAbortLoop(name, nextContent, from, stack) ==
    LET mat == exec(nextContent, from)
    IN  IF mat = <<>> THEN [index |-> <<>>, lastIndex |-> 0]
        ELSE IF mat[1].kind = "start"
        THEN noAbortLoop(name, nextContent, mat[1].last, stack \o <<mat[1].name>>)
        ELSE IF stack = <<>> /\ mat[1].name = name
        THEN [index |-> <<mat[1].index>>, lastIndex |-> mat[1].last]
        ELSE noAbortLoop(name, nextContent, mat[1].last,
                         SubSeq(stack, 1, Len(stack) - 1))

findMatchedEndTagNoAbort(name, nextContent) == noAbortLoop(name, nextContent, 0, <<>>)

\* a matcher that scans on after a candidate and returns the last one it met
RECURSIVE lastEndTagLoop(_, _, _, _, _)
lastEndTagLoop(name, nextContent, from, stack, seen) ==
    LET mat == exec(nextContent, from)
    IN  IF mat = <<>> THEN [index |-> seen, lastIndex |-> 0]
        ELSE IF mat[1].kind = "start"
        THEN lastEndTagLoop(name, nextContent, mat[1].last, stack \o <<mat[1].name>>, seen)
        ELSE IF stack = <<>>
        THEN lastEndTagLoop(name, nextContent, mat[1].last, stack,
                            IF mat[1].name = name THEN <<mat[1].index>> ELSE seen)
        ELSE IF stack[Len(stack)] # mat[1].name
        THEN [index |-> seen, lastIndex |-> mat[1].last]
        ELSE lastEndTagLoop(name, nextContent, mat[1].last,
                            SubSeq(stack, 1, Len(stack) - 1), seen)

findMatchedEndTagLast(name, nextContent) ==
    lastEndTagLoop(name, nextContent, 0, <<>>, <<>>)

\* a matcher that forgets to rewind: the scan goes on where the last one stopped
keepLastIndex == lastIndex

\* TagRegexp.lastIndex = 0, the first statement of both matchers
resetLastIndex == 0

findMatchedEndTag(name, nextContent) ==
    endTagLoop(name, nextContent, resetLastIndex, <<>>)

\* a result taken from the wrong end of the stack: the outermost open start tag
startTagResultBottom(stack, last) ==
    [index |-> IF stack = <<>> THEN <<>> ELSE <<stack[1][2]>>,
     lastIndex |-> last]

\* what findMatchedStartTag returns for the stack its loop ends with
startTagResult(stack, last) ==
    [index |-> IF stack = <<>> THEN <<>> ELSE <<stack[Len(stack)][2]>>,
     lastIndex |-> last]

\* the while loop of findMatchedStartTag; the result is [index, lastIndex]
RECURSIVE startTagLoop(_, _, _, _)
startTagLoop(name, prevContent, from, stack) ==
    LET mat == exec(prevContent, from)
    IN  IF mat = <<>> THEN startTagResult(stack, 0)
        ELSE IF mat[1].kind = "start"
        THEN startTagLoop(name, prevContent, mat[1].last,
                          stack \o << <<mat[1].name, mat[1].index>> >>)
        ELSE IF stack = <<>>
        THEN startTagResult(stack, mat[1].last)
        ELSE IF stack[Len(stack)][1] # mat[1].name
        THEN startTagResult(SubSeq(stack, 1, Len(stack) - 1), mat[1].last)
        ELSE startTagLoop(name, prevContent, mat[1].last,
                          SubSeq(stack, 1, Len(stack) - 1))

\* every match of TagRegexp in t from offset from on, in the order exec yields them
RECURSIVE TagTokens(_, _)
TagTokens(t, from) ==
    LET mat == exec(t, from)
    IN  IF mat = <<>> THEN <<>> ELSE mat \o TagTokens(t, mat[1].last)

\* a backward scan that goes on after an end tag that met an empty stack
RECURSIVE lenientStartLoop(_, _, _, _)
lenientStartLoop(name, prevContent, from, stack) ==
    LET mat == exec(prevContent, from)
    IN  IF mat = <<>> THEN startTagResult(stack, 0)
        ELSE IF mat[1].kind = "start"
        THEN lenientStartLoop(name, prevContent, mat[1].last,
                              stack \o << <<mat[1].name, mat[1].index>> >>)
        ELSE IF stack = <<>>
        THEN lenientStartLoop(name, prevContent, mat[1].last, stack)
        ELSE IF stack[Len(stack)][1] # mat[1].name
        THEN startTagResult(SubSeq(stack, 1, Len(stack) - 1), mat[1].last)
        ELSE lenientStartLoop(name, prevContent, mat[1].last,
                              SubSeq(stack, 1, Len(stack) - 1))

findMatchedStartTagLenient(name, prevContent) ==
    lenientStartLoop(name, prevContent, 0, <<>>)

findMatchedStartTag(name, prevContent) ==
    startTagLoop(name, prevContent, resetLastIndex, <<>>)

(***************************************************************************)
(* provideDocumentHighlights                                               *)
(***************************************************************************)
\* the test with the \s+ of normalize's pattern: /^\s+[^<>]*\/>/
selfClosingTestSpace(nextText) ==
    LET k == FirstAngle(nextText, 0)
    IN  SpaceChar(At(nextText, 0)) /\ At(nextText, k) = ">" /\ At(nextText, k - 1) = "/"

\* /^[^<>]*\/>/.test(nextText)
selfClosingTest(nextText) ==
    LET k == FirstAngle(nextText, 0)
    IN  At(nextText, k) = ">" /\ At(nextText, k - 1) = "/"

\* a translation that forgets the "</" before the name of the end tag
endNameRangeNoSkip(nextStartIndex, nextEndIndex, name) ==
    <<nextStartIndex + nextEndIndex, nextStartIndex + nextEndIndex + Len(name)>>

\* the range pushed for the end tag found at nextEndIndex of the text after the anchor
endNameRange(nextStartIndex, nextEndIndex, name) ==
    <<nextStartIndex + nextEndIndex + 2, nextStartIndex + nextEndIndex + 2 + Len(name)>>

\* the range pushed for the start tag found at prevStartIndex of the document
startNameRange(prevStartIndex, name) ==
    <<prevStartIndex + 1, prevStartIndex + 1 + Len(name)>>

\* the call's outcome: how it ended, the ranges returned, the matcher it ran and
\* the TagRegexp.lastIndex it leaves behind (li is the one it found)
Highlights(t, p, li) ==
    LET word == getWordRangeAtPosition(t, p)
    IN  IF word = <<>>
        THEN [phase |-> "returned", res |-> <<>>, matcher |-> "none", lastIndex |-> li]
        ELSE
        LET range == word[1]
            name == Slice(t, range[1], range[2])
        IN  IF prevThrows(t, range[1], 1)
            THEN [phase |-> "threw", res |-> <<>>, matcher |-> "none", lastIndex |-> li]
            ELSE IF prev(t, range[1], 1) = <<"<">>
            THEN LET nextStartIndex == range[2]
                     nextText == normalize(Slice(t, nextStartIndex, Len(t)))
                 IN  IF selfClosingTest(nextText)
                     THEN [phase |-> "returned", res |-> <<range>>,
                           matcher |-> "none", lastIndex |-> li]
                     ELSE LET m == findMatchedEndTag(name, nextText)
                          IN  [phase |-> "returned",
                               res |-> IF m.index = <<>> THEN <<range>>
                                       ELSE <<range,
                                              endNameRange(nextStartIndex,
                                                           m.index[1], name)>>,
                               matcher |-> "end", lastIndex |-> m.lastIndex]
            ELSE IF prevThrows(t, range[1], 2)
            THEN [phase |-> "threw", res |-> <<>>, matcher |-> "none", lastIndex |-> li]
            ELSE IF prev(t, range[1], 2) = <<"<", "/">> /\ next(t, range[2], 1) = <<">">>
            THEN LET prevEndIndex == range[1] - 2
                     prevText == normalize(Slice(t, 0, prevEndIndex))
                     m == findMatchedStartTag(name, prevText)
                 IN  [phase |-> "returned",
                      res |-> IF m.index = <<>> THEN <<range>>
                              ELSE <<range, startNameRange(m.index[1], name)>>,
                      matcher |-> "start", lastIndex |-> m.lastIndex]
            ELSE [phase |-> "returned", res |-> <<range>>, matcher |-> "none",
                  lastIndex |-> li]

(***************************************************************************)
(* The documents the editor is opened on: every concatenation of a few     *)
(* pieces of one of seven families.                                          *)
(***************************************************************************)
RECURSIVE Flatten(_)
Flatten(ps) == IF ps = <<>> THEN <<>> ELSE Head(ps) \o Flatten(Tail(ps))

Family(pieces, n) == { Flatten(ps) : ps \in UNION { [1..k -> pieces] : k \in 0..n } }

MaxChars == 4
MaxTags == 4
MaxNest == 6
MaxComment == 3
MaxAttr == 4
MaxSelf == 3
MaxAgain == 3
MaxOpen == 3

\* single characters: arbitrary, mostly malformed, text of one or more lines
CharPieces == { <<"<">>, <<"/">>, <<"a">>, <<">">>, <<"\n">> }

\* <a>  </a>  <b>  </b>  <b/>
TagPieces ==
    { <<"<", "a", ">">>, <<"<", "/", "a", ">">>, <<"<", "b", ">">>,
      <<"<", "/", "b", ">">>, <<"<", "b", "/", ">">> }

\* <a>  x  </a>
NestPieces == { <<"<", "a", ">">>, <<"x">>, <<"<", "/", "a", ">">> }

\* <a>  </a>  <!--</a>-->  <!--<a>-->  and a comment of two lines holding </a>
CommentPieces ==
    { <<"<", "a", ">">>, <<"<", "/", "a", ">">>,
      <<"<", "!", "-", "-", "<", "/", "a", ">", "-", "-", ">">>,
      <<"<", "!", "-", "-", "<", "a", ">", "-", "-", ">">>,
      <<"<", "!", "-", "-", "\n", "<", "/", "a", ">", "-", "-", ">">> }

\* <a "<!--/>"  (a start tag with a quoted value)  />  >  <!---->  </a>
AttrPieces ==
    { <<"<", "a", " ", "\"", "<", "!", "-", "-", "/", ">", "\"">>,
      <<"/", ">">>, <<">">>, <<"<", "!", "-", "-", "-", "-", ">">>,
      <<"<", "/", "a", ">">> }

\* <ab>  </ab>  <b x='>'/>  (self-closing, an attribute value holding '>')
\* "</ab>"  (a quoted literal holding an end tag)  '  (an apostrophe in the text)
SelfPieces ==
    { <<"<", "a", "b", ">">>, <<"<", "/", "a", "b", ">">>,
      <<"<", "b", " ", "x", "=", "'", ">", "'", "/", ">">>,
      <<"\"", "<", "/", "a", "b", ">", "\"">>, <<"'">> }

\* </ab>  <b  (a start tag that is not closed)  " <b />/>"  (a self-closing tag
\* in the place of an attribute, and the end of the tag around it)
OpenPieces ==
    { <<"<", "/", "a", "b", ">">>, <<"<", "b">>,
      <<" ", "<", "b", " ", "/", ">", "/", ">">> }

Docs ==
    Family(CharPieces, MaxChars) \cup Family(TagPieces, MaxTags)
        \cup Family(NestPieces, MaxNest) \cup Family(CommentPieces, MaxComment)
        \cup Family(AttrPieces, MaxAttr) \cup Family(SelfPieces, MaxSelf)
        \cup Family(OpenPieces, MaxOpen)

(***************************************************************************)
(* The settings autoConfig reads and writes, and the extension's config.   *)
(* A settings map is a function from its keys to their values.             *)
(***************************************************************************)
\* the updates array of autoConfig: the keys it wants set, map by map
updates ==
    << [key |-> "files.associations",
        map |-> [k \in {"*.cjson", "*.wxss", "*.wxs"} |->
                    IF k = "*.cjson" THEN "jsonc"
                    ELSE IF k = "*.wxss" THEN "css" ELSE "javascript"]],
       [key |-> "emmet.includeLanguages",
        map |-> [k \in {"wxml"} |-> "html"]] >>

\* a map without keys
EmptyMap == [k \in {} |-> ""]

\* the fields of config that format and activate read
ConfigAtStart ==
    [wxmlFormatter |-> "wxml", jsBeautifyHtml |-> "useCodeBuiltInHTML",
     usePrettier |-> FALSE, disableAutoConfig |-> FALSE]

\* settings in which nothing has been set
SettingsAtStart ==
    [k \in {"files.associations", "emmet.includeLanguages",
            "minapp-vscode.disableAutoConfig"} |->
        IF k = "minapp-vscode.disableAutoConfig" THEN FALSE ELSE EmptyMap]

\* token and context of a completion request: the trigger character, <<>> when
\* the request has none; whether the token is cancelled; whether getLanguage
\* knows the language of the document
NoContext ==
    [triggerCharacter |-> <<>>, isCancellationRequested |-> FALSE, language |-> TRUE]

\* no formatting, activation or completion has taken place
NoExt ==
    /\ config = ConfigAtStart
    /\ settings = SettingsAtStart
    /\ written = <<>>
    /\ formatRange = <<0, 0>>
    /\ failure = <<>>
    /\ messages = <<>>
    /\ edits = <<>>
    /\ context = NoContext
    /\ items = <<>>

\* no matcher loop is being stepped through
NoScan == scanName = <<>> /\ scanStack = <<>> /\ iterations = 0

Init ==
    /\ doc \in Docs
    /\ pos = 0
    /\ phase = "idle"
    /\ res = <<>>
    /\ matcher = "none"
    /\ lastIndex = 0
    /\ found = 0
    /\ NoScan
    /\ NoExt

\* the editor asks for the highlights at cursor offset p of the opened document
provideDocumentHighlights(p) ==
    /\ phase = "idle"
    /\ \E out \in {Highlights(doc, p, lastIndex)} :
        /\ pos' = p
        /\ phase' = out.phase
        /\ res' = out.res
        /\ matcher' = out.matcher
        /\ lastIndex' = out.lastIndex
    /\ found' = lastIndex
    /\ UNCHANGED <<doc, scanVars, extVars>>

Next == \E p \in 0..Len(doc) : provideDocumentHighlights(p)

Spec == Init /\ [][Next]_vars

(***************************************************************************)
(* The editor asking again: the provider object and the module-level       *)
(* TagRegexp outlive a request, so a request may find the lastIndex that   *)
(* the request before it left behind.                                      *)
(***************************************************************************)
InitAgain ==
    /\ doc \in Family(TagPieces, MaxAgain)
    /\ pos = 0
    /\ phase = "idle"
    /\ res = <<>>
    /\ matcher = "none"
    /\ lastIndex = 0
    /\ found = 0
    /\ NoScan
    /\ NoExt

\* a further request at cursor offset p of the same document
provideDocumentHighlightsAgain(p) ==
    /\ phase # "idle"
    /\ \E out \in {Highlights(doc, p, lastIndex)} :
        /\ pos' = p
        /\ phase' = out.phase
        /\ res' = out.res
        /\ matcher' = out.matcher
        /\ lastIndex' = out.lastIndex
    /\ found' = lastIndex
    /\ UNCHANGED <<doc, scanVars, extVars>>

NextAgain ==
    \/ \E p \in 0..Len(doc) : provideDocumentHighlights(p)
    \/ \E p \in 0..Len(doc) : provideDocumentHighlightsAgain(p)

SpecAgain == InitAgain /\ [][NextAgain]_vars

(***************************************************************************)
(* The two matcher loops, one iteration at a time.  doc is the text the    *)
(* matcher was handed, lastIndex is TagRegexp.lastIndex, and res is the    *)
(* matcher's return value: <<>> for undefined, <<n>> for the offset n.     *)
(***************************************************************************)
MaxScan == 3
MaxIterations == 24

\* the texts the matchers are handed
ScanTexts == Family(TagPieces, MaxScan) \cup Family(CharPieces, MaxScan)

\* a pattern without the g flag: exec leaves lastIndex where it was
lastIndexNoGlobal(mat) == lastIndex

\* TagRegexp.lastIndex after a successful exec of the global pattern
lastIndexAfter(mat) == mat.last

\* the matcher has executed TagRegexp.lastIndex = 0 and stands at its while loop
InitScan ==
    /\ doc \in ScanTexts
    /\ scanName \in { <<"a">>, <<"b">> }
    /\ matcher \in {"end", "start"}
    /\ phase = "scanning"
    /\ lastIndex = resetLastIndex
    /\ scanStack = <<>>
    /\ iterations = 0
    /\ res = <<>>
    /\ pos = 0
    /\ found = 0
    /\ NoExt

\* the loop condition of findMatchedEndTag and, when it holds, one run of the body
endTagStep ==
    /\ phase = "scanning"
    /\ matcher = "end"
    /\ iterations < MaxIterations
    /\ \E mat \in {exec(doc, lastIndex)} :
        IF mat = <<>>
        THEN /\ lastIndex' = 0
             /\ phase' = "returned"
             /\ UNCHANGED <<res, scanStack, iterations>>
        ELSE /\ lastIndex' = lastIndexAfter(mat[1])
             /\ iterations' = iterations + 1
             /\ IF mat[1].kind = "start"
                THEN /\ scanStack' = scanStack \o <<mat[1].name>>
                     /\ UNCHANGED <<phase, res>>
                ELSE IF scanStack = <<>>
                THEN /\ UNCHANGED scanStack
                     /\ IF mat[1].name = scanName
                        THEN phase' = "returned" /\ res' = <<mat[1].index>>
                        ELSE UNCHANGED <<phase, res>>
                ELSE /\ scanStack' = SubSeq(scanStack, 1, Len(scanStack) - 1)
                     /\ UNCHANGED res
                     /\ phase' = IF scanStack[Len(scanStack)] # mat[1].name
                                 THEN "returned" ELSE phase
    /\ UNCHANGED <<doc, pos, matcher, found, scanName, extVars>>

\* the loop condition of findMatchedStartTag and, when it holds, one run of the
\* body; the return statement after the loop is part of the step that leaves it
startTagStep ==
    /\ phase = "scanning"
    /\ matcher = "start"
    /\ iterations < MaxIterations
    /\ \E mat \in {exec(doc, lastIndex)} :
        IF mat = <<>>
        THEN /\ lastIndex' = 0
             /\ phase' = "returned"
             /\ res' = startTagResult(scanStack, 0).index
             /\ UNCHANGED <<scanStack, iterations>>
        ELSE /\ lastIndex' = lastIndexAfter(mat[1])
             /\ iterations' = iterations + 1
             /\ IF mat[1].kind = "start"
                THEN /\ scanStack' = scanStack \o << <<mat[1].name, mat[1].index>> >>
                     /\ UNCHANGED <<phase, res>>
                ELSE IF scanStack = <<>>
                THEN /\ UNCHANGED scanStack
                     /\ phase' = "returned"
                     /\ res' = <<>>
                ELSE /\ scanStack' = SubSeq(scanStack, 1, Len(scanStack) - 1)
                     /\ IF scanStack[Len(scanStack)][1] # mat[1].name
                        THEN /\ phase' = "returned"
                             /\ res' = startTagResult(scanStack', 0).index
                        ELSE UNCHANGED <<phase, res>>
    /\ UNCHANGED <<doc, pos, matcher, found, scanName, extVars>>

NextScan == endTagStep \/ startTagStep

\* the loops are synchronous code of one thread: a loop that can take a step takes it
SpecScan == InitScan /\ [][NextScan]_vars /\ WF_vars(NextScan)

(***************************************************************************)
(* WxmlFormatter.format.  The formatting engines are libraries: a run of   *)
(* an engine is the sequence of its steps, any one of which may throw (or  *)
(* reject, under await), and its output is some text.                      *)
(***************************************************************************)
MaxFormat == 2

\* <a>  </a>  a blank
FormatPieces == { <<"<", "a", ">">>, <<"<", "/", "a", ">">>, <<" ">> }

\* the documents the formatter is called on
FormatDocs == Family(FormatPieces, MaxFormat)

\* the steps of the branch of the try block that config selects, in order
EngineSteps(c) ==
    IF c.wxmlFormatter = "prettier"
    THEN <<"requireLocalPkg", "resolveConfig", "prettier.format">>
    ELSE IF c.wxmlFormatter = "jsBeautifyHtml"
    THEN <<"require js-beautify">>
            \o (IF c.jsBeautifyHtml = "useCodeBuiltInHTML"
                THEN <<"htmlFormatToJsBeautify">> ELSE <<>>)
            \o <<"jsb_html">>
    ELSE IF c.wxmlFormatter = "prettyHtml"
    THEN (IF c.usePrettier THEN <<"requireLocalPkg", "resolveConfig">> ELSE <<>>)
            \o <<"prettyhtml">>
    ELSE <<"parse", "toXML">>

\* what an engine may give back for the code: the code itself, the code with a
\* line break added, the code without its blanks
EngineOutputs(code) ==
    { code, code \o <<"\n">>, SelectSeq(code, LAMBDA c : c # " ") }

\* a content that starts out empty instead of as the code of the range
initialContentEmpty(code) == <<>>

\* let content: string = code
initialContent(code) == code

\* the try block and its catch clause: the content and the messages shown, when
\* step fail[1] throws (fail = <<>>: no step throws and the engine gives out)
tryFormat(c, code, fail, out) ==
    IF fail = <<>>
    THEN [content |-> out, messages |-> <<>>]
    ELSE [content |-> initialContent(code),
          messages |-> << [formatter |-> c.wxmlFormatter, message |-> fail[1]] >>]

InitFormat ==
    /\ doc \in FormatDocs
    /\ config \in
        { [ConfigAtStart EXCEPT !.wxmlFormatter = f, !.jsBeautifyHtml = j,
                                !.usePrettier = u] :
            f \in {"prettier", "jsBeautifyHtml", "prettyHtml", "wxml"},
            j \in {"useCodeBuiltInHTML", "options"}, u \in BOOLEAN }
    /\ pos = 0
    /\ phase = "idle"
    /\ res = <<>>
    /\ matcher = "none"
    /\ lastIndex = 0
    /\ found = 0
    /\ NoScan
    /\ settings = SettingsAtStart
    /\ written = <<>>
    /\ formatRange = <<0, 0>>
    /\ failure = <<>>
    /\ messages = <<>>
    /\ edits = <<>>
    /\ context = NoContext
    /\ items = <<>>

\* format(doc, range, options, prefix), awaited to its end
format(r, fail, out) ==
    /\ phase = "idle"
    /\ \E run \in {tryFormat(config, Slice(doc, r[1], r[2]), fail, out)} :
        /\ messages' = run.messages
        /\ edits' = << [range |-> r, newText |-> run.content] >>
    /\ formatRange' = r
    /\ failure' = fail
    /\ phase' = "returned"
    /\ UNCHANGED <<doc, pos, res, matcher, lastIndex, found, scanVars, config,
                   settings, written, context, items>>

NextFormat ==
    \E a \in 0..Len(doc) : \E b \in a..Len(doc) :
        \E fail \in {<<>>} \cup { <<EngineSteps(config)[k]>> :
                                    k \in 1..Len(EngineSteps(config)) } :
            \E out \in EngineOutputs(Slice(doc, a, b)) :
                format(<<a, b>>, fail, out)

SpecFormat == InitFormat /\ [][NextFormat]_vars

(***************************************************************************)
(* activate and autoConfig.  The settings are those of the user; the       *)
(* config object follows the settings (configActivate reads them and       *)
(* listens to their changes).                                              *)
(***************************************************************************)
\* the setting that switches autoConfig off
DisableAutoConfig == "minapp-vscode.disableAutoConfig"

\* the map autoConfig wants for the setting key
MapOf(key) == IF key = updates[1].key THEN updates[1].map ELSE updates[2].map

\* the keys a user's map may hold: those autoConfig adds and one of the user's own
UserKeys(key) ==
    DOMAIN MapOf(key) \cup (IF key = updates[1].key THEN {"*.txt"} ELSE {})

\* the maps a user may have set: each key absent, or set to the value autoConfig
\* would give it, or set to a value of the user's own
UserMaps(key) ==
    UNION { { [k \in S |-> IF k \in own THEN "plaintext" ELSE MapOf(key)[k]] :
                own \in { o \in SUBSET S : S \ DOMAIN MapOf(key) \subseteq o } } :
            S \in SUBSET UserKeys(key) }

UserSettings ==
    { [k \in DOMAIN SettingsAtStart |->
            IF k = DisableAutoConfig THEN d
            ELSE IF k = updates[1].key THEN fa ELSE em] :
        d \in BOOLEAN, fa \in UserMaps(updates[1].key), em \in UserMaps(updates[2].key) }

\* an appendMap that takes every key of the map, set or not
appendMapAll(oldMap, map) == map

\* the keys of map that oldMap does not have, with the values map gives them
appendMap(oldMap, map) == [k \in DOMAIN map \ DOMAIN oldMap |-> map[k]]

\* { ...a, ...b }
Spread(a, b) ==
    [k \in DOMAIN a \cup DOMAIN b |-> IF k \in DOMAIN b THEN b[k] ELSE a[k]]

\* updates.forEach from entry i on: c is the configuration read, st the settings
\* and the update calls so far
RECURSIVE forEachUpdate(_, _, _)
forEachUpdate(c, st, i) ==
    IF i > Len(updates) THEN st
    ELSE LET oldMap == c[updates[i].key]
             append == appendMap(oldMap, updates[i].map)
             value == Spread(oldMap, append)
         IN  IF DOMAIN append # {}
             THEN forEachUpdate(c,
                    [settings |-> [st.settings EXCEPT ![updates[i].key] = value],
                     written |-> Append(st.written,
                                        [key |-> updates[i].key, value |-> value])],
                    i + 1)
             ELSE forEachUpdate(c, st, i + 1)

\* autoConfig on the configuration c: the settings it leaves and its update calls
autoConfig(c) ==
    LET st == forEachUpdate(c, [settings |-> c, written |-> <<>>], 1)
    IN  [settings |-> [st.settings EXCEPT ![DisableAutoConfig] = TRUE],
         written |-> Append(st.written, [key |-> DisableAutoConfig, value |-> TRUE])]

InitConfig ==
    /\ settings \in UserSettings
    /\ config = ConfigAtStart
    /\ written = <<>>
    /\ doc = <<>>
    /\ pos = 0
    /\ phase = "idle"
    /\ res = <<>>
    /\ matcher = "none"
    /\ lastIndex = 0
    /\ found = 0
    /\ NoScan
    /\ formatRange = <<0, 0>>
    /\ failure = <<>>
    /\ messages = <<>>
    /\ edits = <<>>
    /\ context = NoContext
    /\ items = <<>>

\* activate(context), as far as the settings go
activate ==
    /\ phase' = "activated"
    /\ IF ~settings[DisableAutoConfig]
       THEN \E out \in {autoConfig(settings)} :
                /\ settings' = out.settings
                /\ written' = out.written
       ELSE /\ written' = <<>>
            /\ UNCHANGED settings
    /\ config' = [config EXCEPT !.disableAutoConfig = settings'[DisableAutoConfig]]
    /\ UNCHANGED <<doc, pos, res, matcher, lastIndex, found, scanVars, formatRange,
                   failure, messages, edits, context, items>>

\* between two activations the user edits the settings
editSettings(s) ==
    /\ s # settings
    /\ settings' = s
    /\ config' = [config EXCEPT !.disableAutoConfig = s[DisableAutoConfig]]
    /\ written' = <<>>
    /\ phase' = "idle"
    /\ UNCHANGED <<doc, pos, res, matcher, lastIndex, found, scanVars, formatRange,
                   failure, messages, edits, context, items>>

NextConfig ==
    \/ activate
    \/ \E s \in UserSettings \cup {SettingsAtStart} : editSettings(s)

SpecConfig == InitConfig /\ [][NextConfig]_vars

(***************************************************************************)
(* WXML completion: provideCompletionItems.  What a request returns is     *)
(* <<>> for the empty list and <<f>> for the list the method f produces.   *)
(***************************************************************************)
MaxCompletion == 3

\* <a  a blank  a line break  b  $  >
CompletionPieces ==
    { <<"<", "a">>, <<" ">>, <<"\n">>, <<"b">>, <<"$">>, <<">">> }

CompletionDocs == Family(CompletionPieces, MaxCompletion)

\* context.triggerCharacter
TriggerCharacters ==
    { <<>>, <<"<">>, <<" ">>, <<"\n">>, <<"\"">>, <<"'">>, <<":">>, <<"@">>, <<"-">>,
      <<".">>, <<"/">>, <<"b">>, <<"B">> }

\* [\w\d$_] restricted to the characters of the documents
IdentChar(c) == c \in {"a", "b", "$"}

\* char >= 'a' && char <= 'z', likewise
LowerChar(c) == c \in {"a", "b"}

\* getLastChar(document, position): the character before the position
getLastChar(t, p) == prev(t, p, 1)

\* getLastChar(document, new Position(position.line, position.character + 1)):
\* the character after the position, none at the end of the line
getNextChar(t, p) == next(t, p, 1)

\* case '\n': case ' ': both branches return the empty list
spaceCase(t, p) ==
    IF \E c \in {getNextChar(t, p)} : c # <<>> /\ IdentChar(c[1])
    THEN <<>>
    ELSE <<>>

\* the switch on the character
switchChar(char, t, p) ==
    IF char = <<"<">> THEN <<"createComponentSnippetItems">>
    ELSE IF char \in { <<"\n">>, <<" ">> } THEN spaceCase(t, p)
    ELSE IF char \in { <<"\"">>, <<"'">> }
    THEN <<"createComponentAttributeSnippetItems">>
    ELSE IF char \in { <<":">>, <<"@">>, <<"-">>, <<".">> }
    THEN <<"createSpecialAttributeSnippetItems">>
    ELSE IF char = <<"/">> THEN <<"createCloseTagCompletionItem">>
    ELSE IF char # <<>> /\ LowerChar(char[1])
    THEN <<"createComponentAttributeSnippetItems">>
    ELSE <<>>

\* what provideCompletionItems(document, position, token, context) returns
CompletionItems(t, p, ctx) ==
    IF ctx.isCancellationRequested THEN <<>>
    ELSE IF ~ctx.language THEN <<>>
    ELSE switchChar(IF ctx.triggerCharacter # <<>> THEN ctx.triggerCharacter
                    ELSE getLastChar(t, p), t, p)

InitCompletion ==
    /\ doc \in CompletionDocs
    /\ pos = 0
    /\ phase = "idle"
    /\ res = <<>>
    /\ matcher = "none"
    /\ lastIndex = 0
    /\ found = 0
    /\ NoScan
    /\ NoExt

\* the editor asks for completions at offset p; a request without a trigger
\* character comes with a character before the cursor on its line
provideCompletionItems(p, ctx) ==
    /\ phase = "idle"
    /\ ctx.triggerCharacter = <<>> => Column(doc, p) >= 1
    /\ pos' = p
    /\ context' = ctx
    /\ items' = CompletionItems(doc, p, ctx)
    /\ phase' = "returned"
    /\ UNCHANGED <<doc, res, matcher, lastIndex, found, scanVars, config, settings,
                   written, formatRange, failure, messages, edits>>

NextCompletion ==
    \E p \in 0..Len(doc) :
        \E tr \in TriggerCharacters, cancelled \in BOOLEAN, lang \in BOOLEAN :
            provideCompletionItems(p, [triggerCharacter |-> tr,
                                       isCancellationRequested |-> cancelled,
                                       language |-> lang])

SpecCompletion == InitCompletion /\ [][NextCompletion]_vars

(***************************************************************************)
(* The state a request leaves, as the claims speak of it                   *)
(***************************************************************************)
Called == phase # "idle"

\* the anchor: <<>> or <<range>> of the [\w:-]+ word under the cursor
Anchor == getWordRangeAtPosition(doc, pos)

AnchorName == Slice(doc, Anchor[1][1], Anchor[1][2])

\* the text after the anchor and the text before the "</" of the anchor
TailText == Slice(doc, Anchor[1][2], Len(doc))

HeadText == Slice(doc, 0, Anchor[1][1] - 2)

TextAt(range) == Slice(doc, range[1], range[2])

(***************************************************************************)
(* The XML reading of a document, against which pairing is judged: a       *)
(* comment runs from "<!--" to the next "-->", a start tag from "<name" to *)
(* the first ">" outside quotes, and ends in "/>" when it is self-closing. *)
(***************************************************************************)
RECURSIVE XmlCommentEnd(_, _)
XmlCommentEnd(t, j) ==
    IF j + 3 > Len(t) THEN <<>>
    ELSE IF StartsAt(t, j, <<"-", "-", ">">>) THEN <<j + 3>>
    ELSE XmlCommentEnd(t, j + 1)

\* <<end, selfClosing>> of the start tag whose name ends at offset j, or <<>>
RECURSIVE XmlTagEnd(_, _)
XmlTagEnd(t, j) ==
    IF j >= Len(t) \/ At(t, j) = "<" THEN <<>>
    ELSE IF At(t, j) = ">" THEN <<j + 1, FALSE>>
    ELSE IF At(t, j) = "/" /\ At(t, j + 1) = ">" THEN <<j + 2, TRUE>>
    ELSE IF At(t, j) \in {"\"", "'"}
    THEN LET q == IndexOf(t, At(t, j), j + 1)
         IN  IF q < Len(t) THEN XmlTagEnd(t, q + 1) ELSE <<>>
    ELSE XmlTagEnd(t, j + 1)

XmlToken(kind, t, a, b, e) == [kind |-> kind, name |-> Slice(t, a, b), at |-> a, end |-> e]

\* the tokens from offset i on: kind open, close, empty (self-closing), comment or
\* error; at is the offset of the name (of the "<" for a comment or an error)
RECURSIVE XmlTokens(_, _)
XmlTokens(t, i) ==
    IF i >= Len(t) THEN <<>>
    ELSE IF At(t, i) # "<" THEN XmlTokens(t, i + 1)
    ELSE IF StartsAt(t, i, <<"<", "!", "-", "-">>)
    THEN LET e == XmlCommentEnd(t, i + 4)
         IN  IF e = <<>> THEN <<XmlToken("error", t, i, i, i + 1)>> \o XmlTokens(t, i + 1)
             ELSE <<XmlToken("comment", t, i, i, e[1])>> \o XmlTokens(t, e[1])
    ELSE IF At(t, i + 1) = "/" /\ WordChar(At(t, i + 2)) /\ At(t, WordEnd(t, i + 2)) = ">"
    THEN <<XmlToken("close", t, i + 2, WordEnd(t, i + 2), WordEnd(t, i + 2) + 1)>>
             \o XmlTokens(t, WordEnd(t, i + 2) + 1)
    ELSE IF WordChar(At(t, i + 1))
    THEN LET e == XmlTagEnd(t, WordEnd(t, i + 1))
         IN  IF e = <<>> THEN <<XmlToken("error", t, i, i, i + 1)>> \o XmlTokens(t, i + 1)
             ELSE <<XmlToken(IF e[2] THEN "empty" ELSE "open", t, i + 1,
                             WordEnd(t, i + 1), e[1])>> \o XmlTokens(t, e[1])
    ELSE <<XmlToken("error", t, i, i, i + 1)>> \o XmlTokens(t, i + 1)

\* every start tag is closed by an end tag of its name, in nesting order
RECURSIVE XmlBalanced(_, _, _)
XmlBalanced(toks, k, open) ==
    IF k > Len(toks) THEN open = <<>>
    ELSE CASE toks[k].kind = "open" -> XmlBalanced(toks, k + 1, open \o <<toks[k].name>>)
           [] toks[k].kind = "close" ->
                /\ open # <<>>
                /\ open[Len(open)] = toks[k].name
                /\ XmlBalanced(toks, k + 1, SubSeq(open, 1, Len(open) - 1))
           [] toks[k].kind = "error" -> FALSE
           [] OTHER -> XmlBalanced(toks, k + 1, open)

XmlWellFormed(toks) == XmlBalanced(toks, 1, <<>>)

\* index of the end tag that closes the element open at depth 0 before token k
RECURSIVE XmlCloseFrom(_, _, _)
XmlCloseFrom(toks, k, depth) ==
    IF k > Len(toks) THEN 0
    ELSE CASE toks[k].kind = "open" -> XmlCloseFrom(toks, k + 1, depth + 1)
           [] toks[k].kind = "close" ->
                IF depth = 0 THEN k ELSE XmlCloseFrom(toks, k + 1, depth - 1)
           [] OTHER -> XmlCloseFrom(toks, k + 1, depth)

\* the index of the partner of start or end tag k of a well-formed document
XmlPartner(toks, k) ==
    IF toks[k].kind = "open" THEN XmlCloseFrom(toks, k + 1, 0)
    ELSE CHOOSE j \in 1..k : toks[j].kind = "open" /\ XmlCloseFrom(toks, j + 1, 0) = k

NameRange(tok) == <<tok.at, tok.at + Len(tok.name)>>

\* the cursor is on the name of start or end tag tok
CursorOn(tok) ==
    /\ tok.kind \in {"open", "close"}
    /\ pos >= tok.at
    /\ pos <= tok.at + Len(tok.name)

(***************************************************************************)
(* C1.  In a document that is well-formed XML, a request with the cursor   *)
(* on the name of a start tag or of an end tag returns exactly two ranges, *)
(* the range of that name and the range of its partner's name, and the     *)
(* text at both is the tag name.  (The claim speaks of every document      *)
(* that contains a well-formed pair; the documents that are well-formed    *)
(* as a whole are the least it covers.)                                    *)
(***************************************************************************)
C1_WellFormedPair ==
    Called =>
        LET toks == XmlTokens(doc, 0)
        IN  XmlWellFormed(toks) =>
                \A k \in 1..Len(toks) :
                    CursorOn(toks[k]) =>
                        /\ phase = "returned"
                        /\ res = <<NameRange(toks[k]), NameRange(toks[XmlPartner(toks, k)])>>
                        /\ TextAt(res[1]) = toks[k].name
                        /\ TextAt(res[2]) = toks[k].name

(***************************************************************************)
(* C2.  n >= 1 tags <a> nested in each other around plain text: a request  *)
(* on the k-th start-tag name returns that name and the name of the k-th   *)
(* end tag counted from the end.                                           *)
(***************************************************************************)
OpenA == <<"<", "a", ">">>

CloseA == <<"<", "/", "a", ">">>

RECURSIVE Repeat(_, _)
Repeat(s, n) == IF n = 0 THEN <<>> ELSE s \o Repeat(s, n - 1)

PlainText(t) == \A i \in 1..Len(t) : t[i] \notin {"<", ">", "\"", "'"}

\* doc is <a> n times, plain text, </a> n times
NestedA(n) ==
    /\ n >= 1
    /\ Len(doc) >= n * (Len(OpenA) + Len(CloseA))
    /\ Slice(doc, 0, n * Len(OpenA)) = Repeat(OpenA, n)
    /\ Slice(doc, Len(doc) - n * Len(CloseA), Len(doc)) = Repeat(CloseA, n)
    /\ PlainText(Slice(doc, n * Len(OpenA), Len(doc) - n * Len(CloseA)))

\* offset of the name of the k-th start tag, and of the k-th end tag from the end
NestedStart(k) == (k - 1) * Len(OpenA) + 1

NestedEnd(k) == Len(doc) - k * Len(CloseA) + 2

C2_NestedSameName ==
    Called =>
        \A n \in 1..Len(doc) :
            NestedA(n) =>
                \A k \in 1..n :
                    pos \in {NestedStart(k), NestedStart(k) + 1} =>
                        res = << <<NestedStart(k), NestedStart(k) + 1>>,
                                 <<NestedEnd(k), NestedEnd(k) + 1>> >>

\* the outer of two or more nested tags is paired with the last end tag
C2_Witness ==
    /\ phase = "returned"
    /\ \E n \in 2..Len(doc) : NestedA(n)
    /\ pos = 1
    /\ Len(res) = 2
    /\ res[2] = <<Len(doc) - 2, Len(doc) - 1>>

(***************************************************************************)
(* The slice the request handed to normalize: the text after a start-tag   *)
(* anchor, the text before the "</" of an end-tag anchor, or none.         *)
(***************************************************************************)
Slices ==
    IF phase # "returned" \/ Anchor = <<>> THEN {}
    ELSE IF At(doc, Anchor[1][1] - 1) = "<" THEN {TailText}
    ELSE IF matcher = "start" THEN {HeadText}
    ELSE {}

Blank(t, a, b) == \A i \in a..(b - 1) : At(t, i) = " "

Count(t, c) == Cardinality({ i \in 1..Len(t) : t[i] = c })

(***************************************************************************)
(* C3.  normalize returns a text of the length of its input: checked on    *)
(* every slice a request hands to it.                                      *)
(***************************************************************************)
C3_NormalizeLength ==
    Called => \A t \in Slices : Len(normalize(t)) = Len(t)

\* a request whose slice normalize did change
C3_Witness ==
    /\ phase = "returned"
    /\ matcher = "end"
    /\ normalize(TailText) # TailText
    /\ Len(normalize(TailText)) = Len(TailText)

(***************************************************************************)
(* The stack discipline the two matchers are claimed to follow, told of    *)
(* the token sequence alone: a start token is pushed, an end token pops.   *)
(***************************************************************************)
RECURSIVE StackAfter(_, _)
StackAfter(toks, m) ==
    IF m = 0 THEN <<>>
    ELSE LET s == StackAfter(toks, m - 1)
         IN  IF toks[m].kind = "start" THEN Append(s, toks[m].name)
             ELSE IF s = <<>> THEN s
             ELSE SubSeq(s, 1, Len(s) - 1)

TopBefore(toks, m) == StackAfter(toks, m - 1)[Len(StackAfter(toks, m - 1))]

\* end token m pops a start name that differs from its own
Crossed(toks, m) ==
    /\ toks[m].kind = "end"
    /\ StackAfter(toks, m - 1) # <<>>
    /\ TopBefore(toks, m) # toks[m].name

\* end token m meets an empty stack
EmptyPop(toks, m) == toks[m].kind = "end" /\ StackAfter(toks, m - 1) = <<>>

\* the forward scan for name reaches token m and aborts there on crossed tags
ForwardCrossAt(toks, name, m) ==
    /\ Crossed(toks, m)
    /\ \A j \in 1..(m - 1) :
        /\ ~Crossed(toks, j)
        /\ ~(EmptyPop(toks, j) /\ toks[j].name = name)

\* the backward scan reaches token m and pops a start name that differs there
BackwardCrossAt(toks, m) ==
    /\ Crossed(toks, m)
    /\ \A j \in 1..(m - 1) : ~Crossed(toks, j) /\ ~EmptyPop(toks, j)

(***************************************************************************)
(* C4.  Forward search on crossed tags: when the scan of the text after a  *)
(* start-tag anchor comes to an end token that pops a different start      *)
(* name, only the anchor range is returned; so it is for both anchors of   *)
(* <a><b></a>.                                                             *)
(***************************************************************************)
CrossedDoc == <<"<", "a", ">", "<", "b", ">", "<", "/", "a", ">">>

C4_ForwardCrossedTags ==
    /\ (phase = "returned" /\ matcher = "end") =>
        LET toks == TagTokens(normalize(TailText), 0)
        IN  (\E m \in 1..Len(toks) : ForwardCrossAt(toks, AnchorName, m)) =>
                res = <<Anchor[1]>>
    /\ (Called /\ doc = CrossedDoc /\ Anchor # <<>> /\ At(doc, Anchor[1][1] - 1) = "<") =>
        res = <<Anchor[1]>>

\* a forward scan that did meet crossed tags, with an end tag of the name after them
C4_Witness ==
    /\ phase = "returned"
    /\ matcher = "end"
    /\ LET toks == TagTokens(normalize(TailText), 0)
       IN  /\ \E m \in 1..Len(toks) : ForwardCrossAt(toks, AnchorName, m)
           /\ toks[Len(toks)].kind = "end"
           /\ toks[Len(toks)].name = AnchorName
    /\ res = <<Anchor[1]>>

(***************************************************************************)
(* C5.  Backward search on malformed markup: when the scan of the text     *)
(* before an end-tag anchor comes to an end token that pops a different    *)
(* start name, only the anchor range is returned.                          *)
(***************************************************************************)
C5_BackwardCrossedTags ==
    (phase = "returned" /\ matcher = "start") =>
        LET toks == TagTokens(normalize(HeadText), 0)
        IN  (\E m \in 1..Len(toks) : BackwardCrossAt(toks, m)) => res = <<Anchor[1]>>

(***************************************************************************)
(* C6.  Comment blindness: when the anchor is not inside a comment, the    *)
(* request returns what it returns for the document with every comment     *)
(* blanked (the comment removed, the offsets kept).                        *)
(***************************************************************************)
XmlComments(t) ==
    LET toks == XmlTokens(t, 0)
    IN  { <<toks[k].at, toks[k].end>> : k \in { j \in 1..Len(toks) : toks[j].kind = "comment" } }

WithoutComments(t) ==
    [k \in 1..Len(t) |->
        IF \E c \in XmlComments(t) : c[1] < k /\ k <= c[2] THEN " " ELSE t[k]]

C6_CommentBlind ==
    (phase = "returned" /\ Anchor # <<>>
        /\ \A c \in XmlComments(doc) : Anchor[1][2] <= c[1] \/ c[2] <= Anchor[1][1]) =>
        res = Highlights(WithoutComments(doc), pos, 0).res

(***************************************************************************)
(* C7.  Quoted attribute values do not influence self-closing detection:   *)
(* a start tag with a '>' inside a quoted value is reported self-closing   *)
(* (only the anchor range is returned) when it ends in "/>"; when it does  *)
(* not, it is handed to the forward matcher (or that matcher would find    *)
(* no end tag in the text after it, so that the result is the same).       *)
(***************************************************************************)
\* tok is a start tag that holds a '>' before the one that ends it
QuotedAngle(tok) ==
    /\ tok.kind \in {"open", "empty"}
    /\ \E i \in tok.at..(tok.end - 2) : At(doc, i) = ">"

C7_QuotedValueSelfClosing ==
    Called =>
        LET toks == XmlTokens(doc, 0)
        IN  \A k \in 1..Len(toks) :
                (QuotedAngle(toks[k]) /\ pos >= toks[k].at
                    /\ pos <= toks[k].at + Len(toks[k].name)) =>
                    /\ phase = "returned"
                    /\ IF toks[k].kind = "empty"
                       THEN res = <<NameRange(toks[k])>>
                       ELSE \/ matcher = "end"
                            \/ findMatchedEndTag(toks[k].name, normalize(TailText)).index
                                   = <<>>

(***************************************************************************)
(* C8.  Self-closing anchor: when the character before the anchor is '<'   *)
(* and the normalized text after the anchor comes to "/>" before any '<'   *)
(* or '>', exactly the anchor range is returned and no matcher is run.     *)
(***************************************************************************)
ReachesSlashGt(text) ==
    \E k \in 0..(Len(text) - 2) :
        /\ At(text, k) = "/"
        /\ At(text, k + 1) = ">"
        /\ \A j \in 0..(k - 1) : At(text, j) \notin {"<", ">"}

C8_SelfClosingAnchor ==
    (Called /\ Anchor # <<>> /\ At(doc, Anchor[1][1] - 1) = "<"
        /\ ReachesSlashGt(normalize(TailText))) =>
        /\ phase = "returned"
        /\ res = <<Anchor[1]>>
        /\ matcher = "none"

\* a bare <name/> followed by an end tag of its name: the end tag is not paired
C8_Witness ==
    /\ phase = "returned"
    /\ Anchor # <<>>
    /\ At(doc, Anchor[1][1] - 1) = "<"
    /\ StartsAt(doc, Anchor[1][2], <<"/", ">", "<", "/">> \o AnchorName \o <<">">>)
    /\ res = <<Anchor[1]>>
    /\ matcher = "none"

(***************************************************************************)
(* C9.  Anchor classification: a start-tag name exactly when the character *)
(* before the anchor is '<'; otherwise an end-tag name exactly when the    *)
(* two characters before it are "</" and the character after it is '>';    *)
(* in every other case no matcher runs and the anchor range is returned.   *)
(***************************************************************************)
\* the k characters of the line before the anchor (fewer at the line start)
Before(k) ==
    Slice(doc, IF Column(doc, Anchor[1][1]) >= k THEN Anchor[1][1] - k
               ELSE LineStart(doc, Anchor[1][1]), Anchor[1][1])

After == next(doc, Anchor[1][2], 1)

C9_AnchorClassification ==
    (Called /\ Anchor # <<>>) =>
        /\ phase = "returned"
        /\ IF Before(1) = <<"<">>
           THEN IF ReachesSlashGt(normalize(TailText))
                THEN matcher = "none" /\ res = <<Anchor[1]>>
                ELSE matcher = "end"
           ELSE IF Before(2) = <<"<", "/">> /\ After = <<">">>
           THEN matcher = "start"
           ELSE matcher = "none" /\ res = <<Anchor[1]>>

(***************************************************************************)
(* C10.  Result shape and absence of failure: every request returns; the   *)
(* empty list when no word is under the cursor, otherwise one or two       *)
(* ranges of which the first is the anchor range.                          *)
(***************************************************************************)
C10_ReturnsAnchorFirst ==
    Called =>
        /\ phase = "returned"
        /\ IF Anchor = <<>> THEN res = <<>>
           ELSE Len(res) \in {1, 2} /\ res[1] = Anchor[1]

(***************************************************************************)
(* C11.  History independence: whatever lastIndex the requests before it   *)
(* left behind, a request returns what a scan from offset 0 of its slice   *)
(* returns and leaves the lastIndex that scan leaves; and a request that   *)
(* follows a request at the same cursor offset returns the same ranges.    *)
(***************************************************************************)
\* what the forward and the backward scan from offset 0 give for the request
FreshEnd == endTagLoop(AnchorName, normalize(TailText), 0, <<>>)

FreshStart == startTagLoop(AnchorName, normalize(HeadText), 0, <<>>)

FreshScan ==
    /\ matcher = "end" =>
        /\ lastIndex = FreshEnd.lastIndex
        /\ res = IF FreshEnd.index = <<>> THEN <<Anchor[1]>>
                 ELSE <<Anchor[1],
                        <<Anchor[1][2] + FreshEnd.index[1] + 2,
                          Anchor[1][2] + FreshEnd.index[1] + 2 + Len(AnchorName)>> >>
    /\ matcher = "start" =>
        /\ lastIndex = FreshStart.lastIndex
        /\ res = IF FreshStart.index = <<>> THEN <<Anchor[1]>>
                 ELSE <<Anchor[1],
                        <<FreshStart.index[1] + 1,
                          FreshStart.index[1] + 1 + Len(AnchorName)>> >>

C11_HistoryIndependence ==
    /\ [](Called => FreshScan)
    /\ [][(Called /\ pos' = pos) => res' = res]_vars

\* a request that found a lastIndex past the end tag it then returned
C11_Witness ==
    /\ phase = "returned"
    /\ matcher = "end"
    /\ Len(res) = 2
    /\ found > res[2][2] - Anchor[1][2]

(***************************************************************************)
(* C12.  Forward matcher, end token met with an empty stack: when the      *)
(* first end token at which the scan may stop is met with an empty stack   *)
(* and has another name than the anchor, the scan aborts and only the      *)
(* anchor range is returned, whatever end tag follows; for the text        *)
(* ></b></a> and the name a there is no match.                             *)
(***************************************************************************)
\* end token m meets an empty stack, has another name, and no token before it
\* pops a different name or meets an empty stack
ForwardStrayAt(toks, name, m) ==
    /\ EmptyPop(toks, m)
    /\ toks[m].name # name
    /\ \A j \in 1..(m - 1) : ~Crossed(toks, j) /\ ~EmptyPop(toks, j)

StrayTail == <<">", "<", "/", "b", ">", "<", "/", "a", ">">>

C12_ForwardStrayEndTag ==
    (phase = "returned" /\ matcher = "end") =>
        LET toks == TagTokens(normalize(TailText), 0)
        IN  /\ (\E m \in 1..Len(toks) : ForwardStrayAt(toks, AnchorName, m)) =>
                    res = <<Anchor[1]>>
            /\ (AnchorName = <<"a">> /\ TailText = StrayTail) => res = <<Anchor[1]>>

(***************************************************************************)
(* C13.  Backward matcher result: when no end token of the text before the *)
(* anchor meets an empty stack or pops a different name, the paired range  *)
(* is that of the innermost start tag not yet closed in that text, and     *)
(* only the anchor range is returned when every start tag is closed.       *)
(***************************************************************************)
\* start tokens minus end tokens among tokens a..b
RECURSIVE Depth(_, _, _)
Depth(toks, a, b) ==
    IF a > b THEN 0
    ELSE (IF toks[b].kind = "start" THEN 1 ELSE -1) + Depth(toks, a, b - 1)

\* start token j is not closed by the tokens after it
Unclosed(toks, j) ==
    /\ toks[j].kind = "start"
    /\ \A k \in (j + 1)..Len(toks) : Depth(toks, j + 1, k) >= 0

ScanCompletes(toks) ==
    \A m \in 1..Len(toks) : ~Crossed(toks, m) /\ ~EmptyPop(toks, m)

C13_BackwardTopmost ==
    (phase = "returned" /\ matcher = "start") =>
        LET toks == TagTokens(normalize(HeadText), 0)
            open == { j \in 1..Len(toks) : Unclosed(toks, j) }
        IN  ScanCompletes(toks) =>
                IF open = {} THEN res = <<Anchor[1]>>
                ELSE LET j == CHOOSE i \in open : \A o \in open : o <= i
                     IN  res = <<Anchor[1],
                                 <<toks[j].index + 1,
                                   toks[j].index + 1 + Len(AnchorName)>> >>

\* two start tags are left open and the inner one is paired
C13_Witness ==
    /\ phase = "returned"
    /\ matcher = "start"
    /\ LET toks == TagTokens(normalize(HeadText), 0)
       IN  /\ ScanCompletes(toks)
           /\ Cardinality({ j \in 1..Len(toks) : Unclosed(toks, j) }) >= 2
           /\ \E m \in 1..Len(toks) : toks[m].kind = "end"
    /\ Len(res) = 2
    /\ res[2][1] > 1

(***************************************************************************)
(* C14.  Backward matcher, end token met with an empty stack: when the     *)
(* first end token at which the scan may stop meets an empty stack, only   *)
(* the anchor range is returned, whatever start tags follow it; for the    *)
(* preceding text </x><a> there is no match.                               *)
(***************************************************************************)
BackwardStrayAt(toks, m) ==
    /\ EmptyPop(toks, m)
    /\ \A j \in 1..(m - 1) : ~Crossed(toks, j) /\ ~EmptyPop(toks, j)

StrayHead == <<"<", "/", "x", ">", "<", "a", ">">>

C14_BackwardStrayEndTag ==
    (phase = "returned" /\ matcher = "start") =>
        LET toks == TagTokens(normalize(HeadText), 0)
        IN  /\ (\E m \in 1..Len(toks) : BackwardStrayAt(toks, m)) => res = <<Anchor[1]>>
            /\ findMatchedStartTag(<<"a">>, StrayHead).index = <<>>

\* a stray end tag, then a start tag of the anchor's name: no pair all the same
C14_Witness ==
    /\ phase = "returned"
    /\ matcher = "start"
    /\ LET toks == TagTokens(normalize(HeadText), 0)
       IN  /\ Len(toks) >= 2
           /\ BackwardStrayAt(toks, 1)
           /\ toks[Len(toks)].kind = "start"
           /\ toks[Len(toks)].name = AnchorName
    /\ res = <<Anchor[1]>>

(***************************************************************************)
(* C15.  The forward matcher stops at the first candidate: the end tag it  *)
(* returns is the first end token that meets an empty stack and has the    *)
(* anchor's name; no end token before it popped a start token of another   *)
(* name; and the result is the same for the text cut anywhere after the    *)
(* returned token.                                                         *)
(***************************************************************************)
\* the end tokens that meet an empty stack and have that name
Candidates(toks, name) ==
    { m \in 1..Len(toks) : EmptyPop(toks, m) /\ toks[m].name = name }

C15_ForwardFirstCandidate ==
    (phase = "returned" /\ matcher = "end" /\ Len(res) = 2) =>
        LET text == normalize(TailText)
            toks == TagTokens(text, 0)
        IN  \E m \in Candidates(toks, AnchorName) :
                /\ res[2][1] = Anchor[1][2] + toks[m].index + 2
                /\ \A j \in Candidates(toks, AnchorName) : m <= j
                /\ \A j \in 1..(m - 1) : ~Crossed(toks, j)
                /\ \A n \in toks[m].last..Len(text) :
                        findMatchedEndTag(AnchorName, Slice(text, 0, n)).index
                            = <<toks[m].index>>

\* the first of two candidates is returned, after a nested pair was pushed and popped
C15_Witness ==
    /\ phase = "returned"
    /\ matcher = "end"
    /\ Len(res) = 2
    /\ LET toks == TagTokens(normalize(TailText), 0)
       IN  /\ Cardinality(Candidates(toks, AnchorName)) >= 2
           /\ toks[1].kind = "start"
           /\ \E m \in Candidates(toks, AnchorName) :
                /\ m > 1
                /\ res[2][1] = Anchor[1][2] + toks[m].index + 2

(***************************************************************************)
(* C16.  Coordinate translation: the paired range of a start-tag anchor    *)
(* that ends at offset e is [e+k+2, e+k+2+len(name)) for an end token at   *)
(* offset k of the normalized tail, and the document has "</", the name    *)
(* and ">" there; the paired range of an end-tag anchor is [p+1,           *)
(* p+1+len(name)) for a start token at offset p of the normalized text     *)
(* before it, and the document has "<" at p.                               *)
(***************************************************************************)
C16_CoordinateTranslation ==
    /\ (phase = "returned" /\ matcher = "end" /\ Len(res) = 2) =>
        LET e == Anchor[1][2]
            toks == TagTokens(normalize(TailText), 0)
        IN  \E m \in 1..Len(toks) :
                /\ toks[m].kind = "end"
                /\ res[2] = <<e + toks[m].index + 2,
                              e + toks[m].index + 2 + Len(AnchorName)>>
                /\ StartsAt(doc, e + toks[m].index, <<"<", "/">> \o AnchorName \o <<">">>)
                /\ TextAt(res[2]) = AnchorName
    /\ (phase = "returned" /\ matcher = "start" /\ Len(res) = 2) =>
        LET toks == TagTokens(normalize(HeadText), 0)
        IN  \E m \in 1..Len(toks) :
                /\ toks[m].kind = "start"
                /\ res[2] = <<toks[m].index + 1, toks[m].index + 1 + Len(AnchorName)>>
                /\ At(doc, toks[m].index) = "<"

\* a name of two characters paired across text that normalize blanked
C16_Witness ==
    /\ phase = "returned"
    /\ matcher = "end"
    /\ Len(res) = 2
    /\ Len(AnchorName) = 2
    /\ res[2][2] - res[2][1] = 2
    /\ Slice(normalize(TailText), 0, res[2][1] - Anchor[1][2])
         # Slice(TailText, 0, res[2][1] - Anchor[1][2])

(***************************************************************************)
(* C17.  Normalizer pass 1: every comment span of a slice, from "<!--" to  *)
(* the nearest "-->" after it, taken left to right, is blank in the text   *)
(* normalize returns, also when the span holds line breaks.                *)
(***************************************************************************)
\* the comment spans <<start, end>> of t from offset i on
RECURSIVE CommentSpans(_, _)
CommentSpans(t, i) ==
    IF i >= Len(t) THEN {}
    ELSE IF StartsAt(t, i, <<"<", "!", "-", "-">>) /\ XmlCommentEnd(t, i + 4) # <<>>
    THEN {<<i, XmlCommentEnd(t, i + 4)[1]>>} \cup CommentSpans(t, XmlCommentEnd(t, i + 4)[1])
    ELSE CommentSpans(t, i + 1)

C17_CommentsBlanked ==
    Called =>
        \A t \in Slices :
            \A c \in CommentSpans(t, 0) : Blank(normalize(t), c[1], c[2])

(***************************************************************************)
(* C18.  Normalizer pass 2: every quoted literal of the comment-blanked    *)
(* slice, taken left to right, is blank in the text normalize returns; the *)
(* text returned holds at most one '"' and at most one "'".                *)
(***************************************************************************)
\* the quoted literals <<start, end>> of t from offset i on
RECURSIVE QuotedSpans(_, _)
QuotedSpans(t, i) ==
    IF i >= Len(t) THEN {}
    ELSE IF At(t, i) \in {"\"", "'"} /\ \E j \in (i + 1)..(Len(t) - 1) : At(t, j) = At(t, i)
    THEN LET j == CHOOSE k \in (i + 1)..(Len(t) - 1) :
                    /\ At(t, k) = At(t, i)
                    /\ \A l \in (i + 1)..(k - 1) : At(t, l) # At(t, i)
         IN  {<<i, j + 1>>} \cup QuotedSpans(t, j + 1)
    ELSE QuotedSpans(t, i + 1)

C18_QuotedBlanked ==
    Called =>
        \A t \in Slices :
            \A n \in {normalize(t)} :
                /\ \A q \in QuotedSpans(replace("comment", t), 0) : Blank(n, q[1], q[2])
                /\ Count(n, "\"") <= 1
                /\ Count(n, "'") <= 1

\* a slice with a double-quoted literal that holds an end tag, a single-quoted
\* literal that holds '>' and an apostrophe left over
C18_Witness ==
    /\ phase = "returned"
    /\ Anchor # <<>>
    /\ At(doc, Anchor[1][1] - 1) = "<"
    /\ LET t == TailText
       IN  /\ \E q \in QuotedSpans(t, 0) :
                /\ At(t, q[1]) = "\""
                /\ \E i \in q[1]..q[2] : StartsAt(t, i, <<"<", "/">>)
           /\ \E q \in QuotedSpans(t, 0) :
                /\ At(t, q[1]) = "'"
                /\ \E i \in q[1]..q[2] : At(t, i) = ">"
           /\ Count(normalize(t), "'") = 1
           /\ Count(normalize(t), ">") < Count(t, ">")

(***************************************************************************)
(* The slice as pass 3 of normalize reads it, with its comments and quoted *)
(* literals blank, and the self-closing tags that stand in it.             *)
(***************************************************************************)
Unquoted(t) == replace("quoted", replace("comment", t))

\* "<name", whitespace, text without '<' or '>', "/>" stands at a..b of t
SelfClosingAt(t, a, b) ==
    /\ At(t, a) = "<"
    /\ WordChar(At(t, a + 1))
    /\ SpaceChar(At(t, WordEnd(t, a + 1)))
    /\ b - 2 > WordEnd(t, a + 1)
    /\ At(t, b - 2) = "/"
    /\ At(t, b - 1) = ">"
    /\ \A i \in WordEnd(t, a + 1)..(b - 3) : ~AngleChar(At(t, i))

\* such a tag ends with the first '>' after its name
SelfClosingSpans(t) ==
    { <<a, FirstAngle(t, a + 1) + 1>> :
        a \in { i \in 0..(Len(t) - 1) : SelfClosingAt(t, i, FirstAngle(t, i + 1) + 1) } }

\* "<name/>" stands at a..b of t
BareAt(t, a, b) ==
    /\ At(t, a) = "<"
    /\ WordChar(At(t, a + 1))
    /\ b = WordEnd(t, a + 1) + 2
    /\ At(t, b - 2) = "/"
    /\ At(t, b - 1) = ">"

BareSpans(t) ==
    { <<a, WordEnd(t, a + 1) + 2>> :
        a \in { i \in 0..(Len(t) - 1) : BareAt(t, i, WordEnd(t, i + 1) + 2) } }

\* the offset of the scanned slice in the document
SliceStart == IF At(doc, Anchor[1][1] - 1) = "<" THEN Anchor[1][2] ELSE 0

\* the document with the spans of its scanned slice blank
WithoutSpans(spans) ==
    [k \in 1..Len(doc) |->
        IF \E sp \in spans : SliceStart + sp[1] < k /\ k <= SliceStart + sp[2]
        THEN " " ELSE doc[k]]

\* the document with the '/' of the spans of its scanned slice blank
WithoutSlash(spans) ==
    [k \in 1..Len(doc) |->
        IF \E sp \in spans : k = SliceStart + sp[2] - 1 THEN " " ELSE doc[k]]

ScannedTexts == { normalize(t) : t \in Slices }

\* "<name" stands at offset i of t
StartTagAt(t, i) == At(t, i) = "<" /\ WordChar(At(t, i + 1))

\* "</name>" stands at offset i of t
EndTagAt(t, i) ==
    /\ StartsAt(t, i, <<"<", "/">>)
    /\ \E e \in (i + 3)..(Len(t) - 1) :
        /\ At(t, e) = ">"
        /\ \A k \in (i + 2)..(e - 1) : WordChar(At(t, k))

(***************************************************************************)
(* C21.  Tokenizer: a scan with TagRegexp yields its tokens in strictly    *)
(* increasing offset order, no two of them overlapping; a "<" of the text  *)
(* yields one End token when "</name>" stands there, one Start token when  *)
(* "<name" stands there, and no token otherwise, so that no construct      *)
(* yields both a Start and an End token.                                   *)
(***************************************************************************)
C21_Tokenizer ==
    \A t \in ScannedTexts :
        \A toks \in {TagTokens(t, 0)} :
            /\ \A k \in 1..(Len(toks) - 1) :
                /\ toks[k].index < toks[k + 1].index
                /\ toks[k].last <= toks[k + 1].index
            /\ \A k \in 1..Len(toks) : At(t, toks[k].index) = "<"
            /\ \A i \in 0..(Len(t) - 1) :
                At(t, i) = "<" =>
                    { toks[k].kind : k \in { m \in 1..Len(toks) : toks[m].index = i } }
                        = IF EndTagAt(t, i) THEN {"end"}
                          ELSE IF StartTagAt(t, i) THEN {"start"}
                          ELSE {}

\* a scanned text with a Start token, an End token and a "<" that is no token
C21_Witness ==
    /\ Called
    /\ \E t \in ScannedTexts :
        \E toks \in {TagTokens(t, 0)} :
            /\ \E k \in 1..Len(toks) : toks[k].kind = "start"
            /\ \E k \in 1..Len(toks) : toks[k].kind = "end"
            /\ \E i \in 0..(Len(t) - 1) :
                /\ At(t, i) = "<"
                /\ \A k \in 1..Len(toks) : toks[k].index # i

(***************************************************************************)
(* C22.  Termination: both matcher loops come to an end on every text;     *)
(* each run of the loop body consumes a non-empty match and moves          *)
(* TagRegexp.lastIndex strictly forward, so that the body is run at most   *)
(* as many times as the text has characters.                               *)
(***************************************************************************)
C22_Termination ==
    /\ <>(phase = "returned")
    /\ [](iterations <= Len(doc))
    /\ [][iterations' # iterations =>
            /\ iterations' = iterations + 1
            /\ lastIndex' > lastIndex
            /\ lastIndex' <= Len(doc)]_vars

\* a loop that has ended after running its body several times
C22_Witness ==
    /\ phase = "returned"
    /\ iterations >= 3
    /\ scanName # <<>>

\* the step-wise loops return what the matchers of a request return
ScanAgreesWithMatchers ==
    phase = "returned" /\ scanName # <<>> =>
        \A m \in {IF matcher = "end" THEN findMatchedEndTag(scanName, doc)
                  ELSE findMatchedStartTag(scanName, doc)} :
            res = m.index /\ lastIndex = m.lastIndex

(***************************************************************************)
(* C23.  Name agreement: whenever the request returns a paired range, the  *)
(* text of the document at the paired range is the tag name of the anchor; *)
(* the backward matcher returns only a start tag that bears the name of    *)
(* the end tag the request is anchored on.                                 *)
(***************************************************************************)
C23_NameAgreement ==
    (phase = "returned" /\ Len(res) = 2) => TextAt(res[2]) = AnchorName

(***************************************************************************)
(* C24.  Symmetry: when a request anchored on a tag name returns a paired  *)
(* range, the request anchored on the paired range returns the same two    *)
(* ranges the other way round.                                             *)
(***************************************************************************)
C24_Symmetry ==
    (phase = "returned" /\ Len(res) = 2) =>
        \A back \in {Highlights(doc, res[2][1], 0)} :
            back.phase = "returned" /\ back.res = <<res[2], res[1]>>

(***************************************************************************)
(* C25.  Range separation: the paired range lies apart from the anchor     *)
(* range and inside the slice that was scanned.  For a start-tag anchor it *)
(* begins at least two characters after the end of the anchor and ends     *)
(* within the document; for an end-tag anchor it begins within the         *)
(* document and ends at or before the "</" that introduces the anchor.     *)
(***************************************************************************)
C25_RangeSeparation ==
    (phase = "returned" /\ Len(res) = 2) =>
        /\ matcher = "end" =>
            /\ res[2][1] >= Anchor[1][2] + 2
            /\ res[2][2] <= Len(doc)
        /\ matcher = "start" =>
            /\ res[2][1] >= 0
            /\ res[2][2] <= Anchor[1][1] - 2

(***************************************************************************)
(* C26.  normalize only blanks: every character of normalize(t) is the     *)
(* character of t at the same offset or a blank; nothing is moved,         *)
(* inserted or rewritten to anything else.  Checked on the slice the       *)
(* request normalized.                                                     *)
(***************************************************************************)
C26_OnlyBlanks ==
    \A t \in Slices :
        \A n \in {normalize(t)} :
            \A i \in 1..Len(n) : i <= Len(t) /\ (n[i] = t[i] \/ n[i] = " ")

\* a slice of which normalize blanked a part and kept a tag
C26_Witness ==
    /\ Called
    /\ \E t \in Slices :
        \E n \in {normalize(t)} :
            /\ \E i \in 1..Len(t) : t[i] # " " /\ n[i] = " "
            /\ \E i \in 1..Len(t) : t[i] = "<" /\ n[i] = "<"

(***************************************************************************)
(* C27.  normalize is idempotent: a second application changes nothing,    *)
(* normalize(normalize(t)) = normalize(t).  Checked on the slice the       *)
(* request normalized.                                                     *)
(***************************************************************************)
C27_Idempotent ==
    \A t \in ScannedTexts : normalize(t) = t

(***************************************************************************)
(* C28.  Formatter error handling: when a step of the selected engine      *)
(* throws or rejects, format does not reject; it has shown exactly one     *)
(* error message, which names the engine, and it returns a single edit     *)
(* that replaces the range with the text the range already holds.          *)
(***************************************************************************)
C28_FormatError ==
    (phase # "idle" /\ failure # <<>>) =>
        /\ phase = "returned"
        /\ Len(messages) = 1
        /\ messages[1].formatter = config.wxmlFormatter
        /\ Len(edits) = 1
        /\ edits[1].range = formatRange
        /\ edits[1].newText = Slice(doc, formatRange[1], formatRange[2])

\* a failed engine on a range that holds text
C28_Witness ==
    /\ phase = "returned"
    /\ failure # <<>>
    /\ formatRange[2] - formatRange[1] >= 3
    /\ Len(edits) = 1
    /\ Len(messages) = 1

(***************************************************************************)
(* C29.  autoConfig never overwrites user settings.  In every activation,  *)
(* every key that "files.associations" and "emmet.includeLanguages"        *)
(* already had keeps its value; the only keys added are the absent keys of *)
(* autoConfig's maps, with the values of those maps; no update is issued   *)
(* for a map that needs no addition; the last update sets                  *)
(* "minapp-vscode.disableAutoConfig" to true; and an activation that finds *)
(* that setting true issues no update and leaves the settings alone.       *)
(***************************************************************************)
C29_AutoConfigFrame ==
    [][activate =>
        /\ \A u \in {updates[1], updates[2]} :
            /\ \A k \in DOMAIN settings[u.key] :
                /\ k \in DOMAIN settings'[u.key]
                /\ settings'[u.key][k] = settings[u.key][k]
            /\ \A k \in DOMAIN settings'[u.key] \ DOMAIN settings[u.key] :
                /\ k \in DOMAIN u.map
                /\ settings'[u.key][k] = u.map[k]
            /\ DOMAIN u.map \subseteq DOMAIN settings[u.key] =>
                \A n \in 1..Len(written') : written'[n].key # u.key
        /\ ~settings[DisableAutoConfig] =>
            /\ \A u \in {updates[1], updates[2]} :
                DOMAIN u.map \subseteq DOMAIN settings'[u.key]
            /\ written' # <<>>
            /\ written'[Len(written')] = [key |-> DisableAutoConfig, value |-> TRUE]
            /\ settings'[DisableAutoConfig]
        /\ settings[DisableAutoConfig] =>
            /\ written' = <<>>
            /\ settings' = settings]_vars

\* an activation that added keys to a map in which the user had set a key to a
\* value of their own, and that found the other map complete
C29_Witness ==
    /\ phase = "activated"
    /\ Len(written) = 2
    /\ written[1].key = "files.associations"
    /\ settings["files.associations"]["*.wxss"] = "plaintext"
    /\ settings["files.associations"]["*.wxs"] = "javascript"
    /\ settings["emmet.includeLanguages"]["wxml"] = "plaintext"
    /\ settings[DisableAutoConfig]

(***************************************************************************)
(* C30.  Completion on a blank or a line break: a request that is not      *)
(* cancelled, in a document whose language is known, whose trigger         *)
(* character (or, without one, the character before the cursor) is a       *)
(* blank or a line break, returns the attribute completions, unless the    *)
(* character after the cursor is a letter, a digit, "$" or "_", in which   *)
(* case it returns the empty list.                                         *)
(***************************************************************************)
C30_SpaceTrigger ==
    (/\ phase = "returned"
     /\ ~context.isCancellationRequested
     /\ context.language
     /\ (IF context.triggerCharacter # <<>> THEN context.triggerCharacter[1]
         ELSE At(doc, pos - 1)) \in {" ", "\n"}) =>
        items = IF pos < LineEnd(doc, pos) /\ IdentChar(At(doc, pos))
                THEN <<>>
                ELSE <<"createComponentAttributeSnippetItems">>

====

